---- MODULE Spec2Model ----
(***************************************************************************)
(* Model of the chat-completion client: query (build messages, merge the   *)
(* request configuration, send, warn, parse/validate the content) and send *)
(* (one POST, decode, provider-error check, envelope validation).          *)
(*                                                                         *)
(* Strings that the program inspects (message contents handed to           *)
(* JSON.parse) are sequences of lexemes, so that JSON.stringify and        *)
(* JSON.parse are real conversions between texts and values.               *)
(***************************************************************************)
EXTENDS Integers, Sequences, FiniteSets, TLC

\* ------------------------------------------------------------------------
\* Bounds of the model and program constants
\* ------------------------------------------------------------------------
MaxChoices == 2

DEFAULT_TEMPERATURE == 0

\* The query invocations a host program may have in flight.
Procs == {"q1", "q2"}

\* ------------------------------------------------------------------------
\* JavaScript values
\* ------------------------------------------------------------------------
\* An optional string argument: undefined, or a string (possibly empty).
Undefined == [def |-> FALSE, s |-> ""]
Str(s) == [def |-> TRUE, s |-> s]

\* JavaScript truthiness of an optional string: `if (systemPrompt)`.
TruthyStr(x) == x.def /\ x.s # ""

\* Truthiness of a decoded JSON field read with json["error"]; an absent
\* field reads as undefined.
Truthy(x) == x \notin {"absent", "null", "false", "0", "\"\""}

EmptyFcn == <<>>

Restrict(f, S) == [k \in (DOMAIN f) \cap S |-> f[k]]

\* Object spread {...a, ...b}: own properties of b replace those of a.
Spread(a, b) == [k \in (DOMAIN a) \cup (DOMAIN b) |-> IF k \in DOMAIN b THEN b[k] ELSE a[k]]

\* ------------------------------------------------------------------------
\* JSON values and texts
\* ------------------------------------------------------------------------
JStr(s) == [k |-> "str", s |-> s, n |-> 0, o |-> EmptyFcn]
JNum(n) == [k |-> "num", s |-> "", n |-> n, o |-> EmptyFcn]
JObj(f) == [k |-> "obj", s |-> "", n |-> 0, o |-> f]

AllStrs == {"a", "body", "punchline"}
ObjKeys == {"body", "punchline"}
KeyOrder == <<"body", "punchline", "a">>

Quote(s) == CASE s = "a" -> "\"a\""
              [] s = "body" -> "\"body\""
              [] s = "punchline" -> "\"punchline\""

StrLex == {Quote(s) : s \in AllStrs}
Unquote(l) == CHOOSE s \in AllStrs : Quote(s) = l

NumLex == {"1", "1.0", "2"}
NumOf(l) == CASE l = "1" -> 1 [] l = "1.0" -> 1 [] l = "2" -> 2
NumText(n) == CASE n = 1 -> "1" [] n = 2 -> "2" [] OTHER -> "0"

PrimLex == StrLex \cup NumLex
PrimOf(l) == IF l \in StrLex THEN JStr(Unquote(l)) ELSE JNum(NumOf(l))
PrimText(v) == IF v.k = "str" THEN Quote(v.s) ELSE NumText(v.n)

RECURSIVE StringifyMembers(_, _, _, _)
StringifyMembers(o, order, first, sep) ==
    IF order = <<>> THEN <<>>
    ELSE IF Head(order) \in DOMAIN o
         THEN (IF first THEN <<>> ELSE sep)
              \o <<Quote(Head(order)), ":", PrimText(o[Head(order)])>>
              \o StringifyMembers(o, Tail(order), FALSE, sep)
         ELSE StringifyMembers(o, Tail(order), first, sep)

\* JSON.stringify(v) of a JSON value.
JSONstringify(v) ==
    IF v.k = "obj" THEN <<"{">> \o StringifyMembers(v.o, KeyOrder, TRUE, <<",">>) \o <<"}">>
    ELSE <<PrimText(v)>>

\* JSON.stringify(v, null, 2): one member per line.
JSONstringifyPretty(v) ==
    IF v.k = "obj" /\ DOMAIN v.o # {}
    THEN <<"{", "\n">> \o StringifyMembers(v.o, KeyOrder, TRUE, <<",", "\n">>) \o <<"\n", "}">>
    ELSE JSONstringify(v)

NoValue == [k |-> "none", s |-> "", n |-> 0, o |-> EmptyFcn]
ParseFail == [ok |-> FALSE, val |-> NoValue]
ParseOk(v) == [ok |-> TRUE, val |-> v]

RECURSIVE ParseMembers(_, _)
ParseMembers(toks, acc) ==
    IF Len(toks) >= 3 /\ toks[1] \in StrLex /\ toks[2] = ":" /\ toks[3] \in PrimLex
    THEN LET key == Unquote(toks[1])
             acc2 == Spread(acc, [x \in {key} |-> PrimOf(toks[3])])
             rest == SubSeq(toks, 4, Len(toks))
         IN  IF rest = <<>> THEN ParseOk(JObj(acc2))
             ELSE IF rest[1] = "," /\ Len(rest) > 1 THEN ParseMembers(Tail(rest), acc2)
             ELSE ParseFail
    ELSE ParseFail

\* JSON.parse of a text: the value, or a SyntaxError (ok = FALSE).
JSONparse(toks) ==
    IF Len(toks) = 1 /\ toks[1] \in PrimLex THEN ParseOk(PrimOf(toks[1]))
    ELSE IF Len(toks) >= 2 /\ toks[1] = "{" /\ toks[Len(toks)] = "}"
         THEN IF Len(toks) = 2 THEN ParseOk(JObj(EmptyFcn))
              ELSE ParseMembers(SubSeq(toks, 2, Len(toks) - 1), EmptyFcn)
         ELSE ParseFail

\* ------------------------------------------------------------------------
\* Schemas (zod): z.string(), z.number(), z.object({...}) with its policy
\* for keys the shape does not declare (strip by default, .strict(),
\* .passthrough()).
\* ------------------------------------------------------------------------
NoSchema == [k |-> "undefined", shape |-> EmptyFcn, unknownKeys |-> "strip"]
ZString == [k |-> "string", shape |-> EmptyFcn, unknownKeys |-> "strip"]
ZNumber == [k |-> "number", shape |-> EmptyFcn, unknownKeys |-> "strip"]
ZObject(shape, mode) == [k |-> "object", shape |-> shape, unknownKeys |-> mode]

TypeOk(t, v) == (t = "string" /\ v.k = "str") \/ (t = "number" /\ v.k = "num")

\* schema.parse(v): the validated value, or a ZodError (ok = FALSE).
ZodParse(schema, v) ==
    CASE schema.k = "string" -> IF v.k = "str" THEN ParseOk(v) ELSE ParseFail
      [] schema.k = "number" -> IF v.k = "num" THEN ParseOk(v) ELSE ParseFail
      [] schema.k = "object" ->
            IF /\ v.k = "obj"
               /\ \A key \in DOMAIN schema.shape :
                     key \in DOMAIN v.o /\ TypeOk(schema.shape[key], v.o[key])
               /\ (schema.unknownKeys = "strict" => DOMAIN v.o \subseteq DOMAIN schema.shape)
            THEN IF schema.unknownKeys = "passthrough"
                 THEN ParseOk(v)
                 ELSE ParseOk(JObj(Restrict(v.o, DOMAIN schema.shape)))
            ELSE ParseFail
      [] OTHER -> ParseFail

RECURSIVE SchemaProps(_, _, _)
SchemaProps(shape, order, first) ==
    IF order = <<>> THEN <<>>
    ELSE IF Head(order) \in DOMAIN shape
         THEN (IF first THEN <<>> ELSE <<",">>)
              \o <<Quote(Head(order)), ":", "{", "\"type\"", ":", shape[Head(order)], "}">>
              \o SchemaProps(shape, Tail(order), FALSE)
         ELSE SchemaProps(shape, Tail(order), first)

\* JSON.stringify(zodToJsonSchema(schema)), as a text.
zodToJsonSchema(schema) ==
    IF schema.k = "object"
    THEN <<"{", "\"type\"", ":", "object", ",", "\"properties\"", ":", "{">>
         \o SchemaProps(schema.shape, KeyOrder, TRUE)
         \o <<"}", ",", "\"additionalProperties\"", ":",
              IF schema.unknownKeys = "passthrough" THEN "true" ELSE "false", "}">>
    ELSE <<"{", "\"type\"", ":", schema.k, "}">>

\* ------------------------------------------------------------------------
\* The response envelope (responseSchema) and the request
\* ------------------------------------------------------------------------
Roles == {"system", "assistant", "tool", "user"}
FinishReasons == {"stop", "length", "content_filter", "tool_calls"}

Message(role, content) == [role |-> role, content |-> content]
Choice(content, fr) == [message |-> Message("assistant", content), finish_reason |-> fr]

messageSchema(m) == m.role \in Roles

NoResponse == [ok |-> FALSE, choices |-> <<>>]

\* responseSchema.parse(json): the envelope (unknown keys stripped), or a
\* ZodError (ok = FALSE).
responseSchema(json) ==
    IF /\ json.kind = "object"
       /\ json.object = "chat.completion"
       /\ json.usage
       /\ \A i \in 1..Len(json.choices) :
             /\ messageSchema(json.choices[i].message)
             /\ json.choices[i].finish_reason \in FinishReasons
    THEN [ok |-> TRUE, choices |-> json.choices]
    ELSE NoResponse

\* The instruction of line 118.
JsonInstruction(schema) ==
    <<"Only provide responses in valid JSON in terms of ">> \o zodToJsonSchema(schema) \o <<".">>

\* Variant: one message list shared by the invocations (a module-level array).
SharedMessageList(log) == IF log = <<>> THEN <<>> ELSE log[Len(log)].body.messages

\* const messages: Message[] = [] : a list of the invocation's own; the
\* requests already issued by the process play no part in it.
NewMessageList(log) == <<>>

\* Lines 115-125: the message list of one invocation.
BuildMessages(base, a) ==
    base
    \o (IF a.schema.k # "undefined" THEN <<Message("system", JsonInstruction(a.schema))>> ELSE <<>>)
    \o (IF TruthyStr(a.systemPrompt) THEN <<Message("system", <<a.systemPrompt.s>>)>> ELSE <<>>)
    \o <<Message("user", <<a.userPrompt>>)>>

\* Variant: the response-format flag spread after the caller's overrides.
MergeConfigFlagLast(dflt, a) ==
    Spread(Spread(dflt, a.openAiConfig),
           IF a.schema.k # "undefined"
           THEN [x \in {"response_format"} |-> "json_object"]
           ELSE EmptyFcn)

\* Line 128: {...DEFAULT_REQUEST_CONFIG, ...(schema ? {response_format} : {}), ...openAiConfig}
MergeConfig(dflt, a) ==
    Spread(Spread(dflt, IF a.schema.k # "undefined"
                        THEN [x \in {"response_format"} |-> "json_object"]
                        ELSE EmptyFcn),
           a.openAiConfig)

\* The spread reads DEFAULT_REQUEST_CONFIG and writes a fresh object.
DefaultsAfterMerge(dflt, a) == dflt

\* JSON.stringify of the request body omits properties whose value is
\* undefined.
SerializeConfig(cfg) ==
    Restrict(cfg, {k \in DOMAIN cfg : ~(k = "response_format" /\ cfg[k] = "undefined")})

Request(p, cfg, msgs) ==
    [by |-> p, config |-> cfg, body |-> [config |-> SerializeConfig(cfg), messages |-> msgs]]

\* Variant: the request is issued a second time.
IssueFetchTwice(log, req) == Append(Append(log, req), req)

\* send issues one fetch.
IssueFetch(log, req) == Append(log, req)

\* ------------------------------------------------------------------------
\* Outcomes of an invocation
\* ------------------------------------------------------------------------
Pending == [kind |-> "pending", isText |-> FALSE, text |-> <<>>, value |-> NoValue, error |-> ""]
ReturnedText(t) == [kind |-> "returned", isText |-> TRUE, text |-> t, value |-> NoValue, error |-> ""]
ReturnedValue(v) == [kind |-> "returned", isText |-> FALSE, text |-> <<>>, value |-> v, error |-> ""]
Rejected(e) == [kind |-> "rejected", isText |-> FALSE, text |-> <<>>, value |-> NoValue, error |-> e]
Exited == [kind |-> "exit", isText |-> FALSE, text |-> <<>>, value |-> NoValue, error |-> ""]

\* Lines 173-176, the handler `json => {...}` of send.
SendThenOutcome(json) ==
    IF json.kind = "null" THEN [response |-> NoResponse, outcome |-> Rejected("TypeError")]
    ELSE IF Truthy(json.error) THEN [response |-> NoResponse, outcome |-> Rejected("OpenAiError")]
    ELSE LET r == responseSchema(json)
         IN  IF r.ok THEN [response |-> r, outcome |-> Pending]
             ELSE [response |-> NoResponse, outcome |-> Rejected("ZodError")]

\* Variant: the warning is printed whatever the finish reason.
FinishWarningsAlways(p, fr) ==
    <<[by |-> p, level |-> "warn", fmt |-> "finish_reason",
       text |-> <<"Unexpected finish reason: ", fr>>]>>

\* Lines 134-136: the warnings query prints for a finish reason.
FinishWarnings(p, fr) ==
    IF fr # "stop"
    THEN <<[by |-> p, level |-> "warn", fmt |-> "finish_reason",
            text |-> <<"Unexpected finish reason: ", fr>>]>>
    ELSE <<>>

\* Lines 145-149: the diagnostic of a content that cannot be parsed.
Diagnostic(p, content) ==
    LET j == JSONparse(content)
    IN  IF j.ok
        THEN [by |-> p, level |-> "error", fmt |-> "pretty",
              text |-> <<"Could not parse: ">> \o JSONstringifyPretty(j.val)]
        ELSE [by |-> p, level |-> "error", fmt |-> "verbatim",
              text |-> <<"Could not parse: ">> \o content]

\* Variant: the schema checks the parsed value, and the unvalidated value
\* is what query returns.
ParseContentUnvalidated(schema, content) ==
    IF schema.k = "undefined" THEN ReturnedText(content)
    ELSE LET j == JSONparse(content)
         IN  IF ~j.ok THEN Exited
             ELSE IF ZodParse(schema, j.val).ok THEN ReturnedValue(j.val) ELSE Exited

\* Variant: the parse failure is thrown to the caller.
ParseContentRethrow(schema, content) ==
    IF schema.k = "undefined" THEN ReturnedText(content)
    ELSE LET j == JSONparse(content)
         IN  IF ~j.ok THEN Rejected("SyntaxError")
             ELSE LET z == ZodParse(schema, j.val)
                  IN  IF z.ok THEN ReturnedValue(z.val) ELSE Rejected("ZodError")

\* Lines 140-151: the try block; a throw inside it ends in process.exit(1).
ParseContent(schema, content) ==
    IF schema.k = "undefined" THEN ReturnedText(content)
    ELSE LET j == JSONparse(content)
         IN  IF ~j.ok THEN Exited
             ELSE LET z == ZodParse(schema, j.val)
                  IN  IF z.ok THEN ReturnedValue(z.val) ELSE Exited

\* response.choices[0] : which element query reads.
FirstChoice(choices) == choices[1]

\* ------------------------------------------------------------------------
\* Inputs: the arguments of query and the responses of the provider
\* ------------------------------------------------------------------------
SeqsUpTo(S, n) == UNION {[1..m -> S] : m \in 0..n}

JsonValues ==
    {JStr("a"), JNum(1)}
    \cup {JObj(f) : f \in UNION {[D -> {JStr("a"), JNum(1)}] : D \in SUBSET ObjKeys}}

NotJson == <<"not", "json">>
Truncated == <<"{", "\"body\"", ":">>
Reordered == <<"{", "\"punchline\"", ":", "\"a\"", ",", "\"body\"", ":", "1.0", "}">>

Contents == {JSONstringify(v) : v \in JsonValues} \cup {NotJson, Truncated, Reordered}

Schemas ==
    {NoSchema, ZString, ZNumber,
     ZObject([x \in {"body"} |-> "string"], "strip"),
     ZObject([x \in {"body"} |-> "string"], "strict"),
     ZObject([x \in {"body"} |-> "string"], "passthrough"),
     ZObject([x \in ObjKeys |-> "string"], "strip")}

Overrides ==
    {EmptyFcn,
     [x \in {"temperature"} |-> 1],
     [x \in {"response_format"} |-> "json_object"],
     [x \in {"response_format"} |-> "undefined"]}

\* One invocation in flight: the full range of arguments and responses.
\* Several in flight: a narrow range, with two prompts to tell them apart.
Rich(c) == Cardinality(c) = 1

ArgsOf(c) ==
    IF Rich(c)
    THEN [userPrompt : {"p1"}, systemPrompt : {Undefined, Str(""), Str("sys")},
          schema : Schemas, openAiConfig : Overrides]
    ELSE [userPrompt : {"p1", "p2"}, systemPrompt : {Str("sys")},
          schema : {NoSchema, ZObject([x \in {"body"} |-> "string"], "strip")},
          openAiConfig : {EmptyFcn}]

NoArgs == [userPrompt |-> "", systemPrompt |-> Undefined, schema |-> NoSchema,
           openAiConfig |-> EmptyFcn]

TailChoices ==
    {Choice(<<"\"a\"">>, "stop"),
     [message |-> Message("function", <<"\"a\"">>), finish_reason |-> "stop"]}

ChoiceLists(c) ==
    IF Rich(c)
    THEN {<<>>} \cup {<<Choice(t, fr)>> \o tl :
                        t \in Contents, fr \in FinishReasons,
                        tl \in SeqsUpTo(TailChoices, MaxChoices - 1)}
    ELSE {<<>>,
          <<Choice(JSONstringify(JObj([x \in {"body"} |-> JStr("a")])), "stop")>>,
          <<Choice(JSONstringify(JObj([x \in {"body"} |-> JStr("a")])), "length")>>,
          <<Choice(NotJson, "length")>>}

Json(error, object, usage, choices) ==
    [kind |-> "object", error |-> error, object |-> object, usage |-> usage, choices |-> choices]

JsonNull == [kind |-> "null", error |-> "absent", object |-> "", usage |-> FALSE, choices |-> <<>>]

\* Decoded bodies: well-shaped envelopes with each kind of `error` field,
\* misshapen ones, and null.
Bodies(c) ==
    {Json(e, "chat.completion", TRUE, cs) :
        e \in (IF Rich(c) THEN {"absent", "null", "{message}"} ELSE {"absent"}),
        cs \in ChoiceLists(c)}
    \cup (IF Rich(c)
          THEN {Json("absent", "list", TRUE, cs) : cs \in ChoiceLists(c)}
               \cup {Json("absent", "chat.completion", FALSE, cs) : cs \in ChoiceLists(c)}
               \cup {JsonNull, Json("{message}", "", FALSE, <<>>)}
          ELSE {Json("{message}", "", FALSE, <<>>), Json("absent", "list", TRUE, <<>>)})

NoRaw == [isJson |-> FALSE, json |-> JsonNull]

\* What fetch resolves with: a body that decodes to JSON, or one that does not.
Raws(c) == {[isJson |-> TRUE, json |-> j] : j \in Bodies(c)} \cup {NoRaw}

\* ------------------------------------------------------------------------
\* State
\* ------------------------------------------------------------------------
VARIABLES
    callers,                  \* the invocations the host program makes
    pc,                       \* where each invocation stands
    args,                     \* the arguments of each invocation
    network,                  \* the requests issued, in order
    raw,                      \* what fetch resolved with, per invocation
    response,                 \* the envelope send resolved with
    outcome,                  \* how each invocation ended
    console,                  \* the lines written by console.warn / console.error
    process,                  \* the host process: alive, or exited with a code
    DEFAULT_REQUEST_CONFIG    \* the module-level default configuration

vars == <<callers, pc, args, network, raw, response, outcome, console, process,
          DEFAULT_REQUEST_CONFIG>>

InitialDefaults == [model |-> "gpt-4-1106-preview", temperature |-> DEFAULT_TEMPERATURE]

InitCommon ==
    /\ pc = [p \in Procs |-> "idle"]
    /\ args = [p \in Procs |-> NoArgs]
    /\ network = <<>>
    /\ raw = [p \in Procs |-> NoRaw]
    /\ response = [p \in Procs |-> NoResponse]
    /\ outcome = [p \in Procs |-> Pending]
    /\ console = <<>>
    /\ process = [alive |-> TRUE, code |-> 0]
    /\ DEFAULT_REQUEST_CONFIG = InitialDefaults

Init == callers \in {{"q1"}, Procs} /\ InitCommon

InitConcurrent == callers = Procs /\ InitCommon

\* ------------------------------------------------------------------------
\* Actions
\* ------------------------------------------------------------------------
\* query up to its await (lines 111-130) and send up to fetch (155-170).
Query(p) ==
    /\ process.alive
    /\ p \in callers
    /\ pc[p] = "idle"
    /\ \E a \in ArgsOf(callers) :
          LET messages == BuildMessages(NewMessageList(network), a)
              config == MergeConfig(DEFAULT_REQUEST_CONFIG, a)
          IN  /\ args' = [args EXCEPT ![p] = a]
              /\ network' = IssueFetch(network, Request(p, config, messages))
              /\ DEFAULT_REQUEST_CONFIG' = DefaultsAfterMerge(DEFAULT_REQUEST_CONFIG, a)
    /\ pc' = [pc EXCEPT ![p] = "fetch"]
    /\ UNCHANGED <<callers, raw, response, outcome, console, process>>

\* fetch resolves with the provider's HTTP response.
FetchResolve(p) ==
    /\ process.alive
    /\ pc[p] = "fetch"
    /\ \E r \in Raws(callers) : raw' = [raw EXCEPT ![p] = r]
    /\ pc' = [pc EXCEPT ![p] = "resJson"]
    /\ UNCHANGED <<callers, args, network, response, outcome, console, process,
                   DEFAULT_REQUEST_CONFIG>>

\* fetch rejects: the network fails, or AbortSignal.timeout aborts it.
FetchReject(p) ==
    /\ process.alive
    /\ pc[p] = "fetch"
    /\ \E e \in {"NetworkError", "TimeoutError"} :
          outcome' = [outcome EXCEPT ![p] = Rejected(e)]
    /\ pc' = [pc EXCEPT ![p] = "done"]
    /\ UNCHANGED <<callers, args, network, raw, response, console, process,
                   DEFAULT_REQUEST_CONFIG>>

\* Line 171: res => res.json()
ResJson(p) ==
    /\ process.alive
    /\ pc[p] = "resJson"
    /\ IF raw[p].isJson
       THEN /\ pc' = [pc EXCEPT ![p] = "then"]
            /\ UNCHANGED outcome
       ELSE /\ pc' = [pc EXCEPT ![p] = "done"]
            /\ outcome' = [outcome EXCEPT ![p] = Rejected("SyntaxError")]
    /\ UNCHANGED <<callers, args, network, raw, response, console, process,
                   DEFAULT_REQUEST_CONFIG>>

\* Lines 172-177: the provider-error check and the envelope validation.
SendThen(p) ==
    /\ process.alive
    /\ pc[p] = "then"
    /\ LET r == SendThenOutcome(raw[p].json)
       IN  /\ response' = [response EXCEPT ![p] = r.response]
           /\ outcome' = [outcome EXCEPT ![p] = r.outcome]
           /\ pc' = [pc EXCEPT ![p] = IF r.outcome.kind = "pending" THEN "resume" ELSE "done"]
    /\ UNCHANGED <<callers, args, network, raw, console, process, DEFAULT_REQUEST_CONFIG>>

\* Lines 132-151: query after its await.
QueryResume(p) ==
    /\ process.alive
    /\ pc[p] = "resume"
    /\ pc' = [pc EXCEPT ![p] = "done"]
    /\ IF response[p].choices = <<>>
       THEN \* choice is undefined: reading choice.finish_reason throws
            /\ outcome' = [outcome EXCEPT ![p] = Rejected("TypeError")]
            /\ UNCHANGED <<console, process>>
       ELSE LET choice == FirstChoice(response[p].choices)
                content == choice.message.content
                warned == console \o FinishWarnings(p, choice.finish_reason)
                r == ParseContent(args[p].schema, content)
            IN  /\ outcome' = [outcome EXCEPT ![p] = r]
                /\ IF r.kind = "exit"
                   THEN /\ console' = Append(warned, Diagnostic(p, content))
                        /\ process' = [alive |-> FALSE, code |-> 1]
                   ELSE /\ console' = warned
                        /\ UNCHANGED process
    /\ UNCHANGED <<callers, args, network, raw, response, DEFAULT_REQUEST_CONFIG>>

Next ==
    \E p \in Procs :
        \/ Query(p)
        \/ FetchResolve(p)
        \/ FetchReject(p)
        \/ ResJson(p)
        \/ SendThen(p)
        \/ QueryResume(p)

Spec == Init /\ [][Next]_vars

\* Once fetch is issued the event loop runs each handler, and the timeout
\* bounds the wait for the response.
Progress(p) ==
    FetchResolve(p) \/ FetchReject(p) \/ ResJson(p) \/ SendThen(p) \/ QueryResume(p)

FairSpec == InitConcurrent /\ [][Next]_vars /\ \A p \in Procs : WF_vars(Progress(p))

\* ------------------------------------------------------------------------
\* Properties
\* ------------------------------------------------------------------------
RequestsBy(p) == SelectSeq(network, LAMBDA r : r.by = p)

HasSchema(p) == args[p].schema.k # "undefined"

\* send resolved with an envelope that has a first choice.
HasFirstChoice(p) == response[p].ok /\ response[p].choices # <<>>

ContentOf(p) == response[p].choices[1].message.content

FinishOf(p) == response[p].choices[1].finish_reason

LinesBy(p, level) == SelectSeq(console, LAMBDA l : l.by = p /\ l.level = level)

\* V without the keys an object schema in strip mode does not declare.
KeepDeclared(schema, v) ==
    IF schema.k = "object" /\ schema.unknownKeys = "strip"
    THEN JObj(Restrict(v.o, DOMAIN schema.shape))
    ELSE v

\* C1 as stated: when the schema accepts V and the first choice's content
\* is JSON.stringify(V), query returns a value deep-equal to V.
C1_ReturnsV ==
    \A p \in Procs : \A v \in JsonValues :
        (/\ pc[p] = "done" /\ HasSchema(p) /\ HasFirstChoice(p)
         /\ ZodParse(args[p].schema, v).ok
         /\ ContentOf(p) = JSONstringify(v))
        => outcome[p] = ReturnedValue(v)

\* C1 amended: under the same condition query returns V without the keys
\* that a strip-mode object schema does not declare; when there is no such
\* key, or the schema is strict, passthrough or primitive, that is V.
C1_ReturnsDeclaredPart ==
    \A p \in Procs : \A v \in JsonValues :
        (/\ pc[p] = "done" /\ HasSchema(p) /\ HasFirstChoice(p)
         /\ ZodParse(args[p].schema, v).ok
         /\ ContentOf(p) = JSONstringify(v))
        => /\ outcome[p] = ReturnedValue(KeepDeclared(args[p].schema, v))
           /\ (\/ args[p].schema.unknownKeys # "strip"
               \/ v.k # "obj"
               \/ DOMAIN v.o \subseteq DOMAIN args[p].schema.shape)
              => outcome[p] = ReturnedValue(v)

C1_Witness ==
    \E p \in Procs : \E v \in JsonValues :
        /\ pc[p] = "done" /\ HasSchema(p) /\ HasFirstChoice(p)
        /\ ContentOf(p) = JSONstringify(v)
        /\ v.k = "obj" /\ DOMAIN v.o = ObjKeys
        /\ outcome[p].kind = "returned"
        /\ DOMAIN outcome[p].value.o = {"body"}

\* C2 as stated: with a schema, the configuration handed to send has
\* response_format json_object, whatever the caller's overrides.
C2_AlwaysJsonObject ==
    \A i \in 1..Len(network) :
        HasSchema(network[i].by)
        => /\ "response_format" \in DOMAIN network[i].config
           /\ network[i].config["response_format"] = "json_object"

\* C2 amended: with a schema, response_format is json_object unless the
\* caller's override sets response_format itself, and then it is the
\* override's value; every other field is the override's or else the default's.
C2_JsonObjectUnlessOverridden ==
    \A i \in 1..Len(network) :
        LET a == args[network[i].by]
            c == network[i].config
        IN  /\ (a.schema.k # "undefined" /\ "response_format" \notin DOMAIN a.openAiConfig)
               => ("response_format" \in DOMAIN c /\ c["response_format"] = "json_object")
            /\ \A k \in DOMAIN a.openAiConfig : k \in DOMAIN c /\ c[k] = a.openAiConfig[k]
            /\ \A k \in DOMAIN InitialDefaults :
                  k \notin DOMAIN a.openAiConfig => (k \in DOMAIN c /\ c[k] = InitialDefaults[k])
            /\ (a.schema.k = "undefined" /\ "response_format" \notin DOMAIN a.openAiConfig)
               => "response_format" \notin DOMAIN c

C2_Witness ==
    \E i \in 1..Len(network) :
        /\ HasSchema(network[i].by)
        /\ "response_format" \in DOMAIN args[network[i].by].openAiConfig
        /\ network[i].config["response_format"] = "undefined"
        /\ "response_format" \notin DOMAIN network[i].body.config

\* C3 as stated: a decoded body with a top-level error field, whatever its
\* value, makes send fail with a provider error; query returns nothing,
\* prints no diagnostic and does not exit.
C3_ErrorFieldAlwaysFails ==
    \A p \in Procs :
        (/\ pc[p] \in {"resume", "done"}
         /\ raw[p].isJson /\ raw[p].json.kind = "object"
         /\ raw[p].json.error # "absent")
        => /\ outcome[p] = Rejected("OpenAiError")
           /\ LinesBy(p, "error") = <<>>

\* C4: with a schema and a first choice whose content is not JSON, or is
\* JSON the schema rejects, query prints a diagnostic with the content
\* (pretty-printed when it parses, verbatim otherwise) and exits non-zero;
\* it neither returns nor rejects.
C4_ParseFailureExits ==
    \A p \in Procs :
        (/\ pc[p] = "done" /\ HasSchema(p) /\ HasFirstChoice(p)
         /\ \/ ~JSONparse(ContentOf(p)).ok
            \/ ~ZodParse(args[p].schema, JSONparse(ContentOf(p)).val).ok)
        => /\ outcome[p] = Exited
           /\ ~process.alive /\ process.code # 0
           /\ Len(LinesBy(p, "error")) = 1
           /\ console[Len(console)] = LinesBy(p, "error")[1]
           /\ LET d == LinesBy(p, "error")[1]
                  j == JSONparse(ContentOf(p))
              IN  IF j.ok
                  THEN d.fmt = "pretty"
                       /\ d.text = <<"Could not parse: ">> \o JSONstringifyPretty(j.val)
                  ELSE d.fmt = "verbatim"
                       /\ d.text = <<"Could not parse: ">> \o ContentOf(p)

C4_Witness ==
    \E p \in Procs :
        /\ pc[p] = "done" /\ HasSchema(p) /\ HasFirstChoice(p)
        /\ JSONparse(ContentOf(p)).ok
        /\ ~ZodParse(args[p].schema, JSONparse(ContentOf(p)).val).ok
        /\ outcome[p] = Exited /\ process.code = 1
        /\ console[Len(console)].fmt = "pretty"

\* C5 as stated: without a schema, an envelope that send accepts makes
\* query return the first choice's content unmodified.
C5_ReturnsContent ==
    \A p \in Procs :
        (pc[p] = "done" /\ ~HasSchema(p) /\ response[p].ok)
        => /\ outcome[p].kind = "returned" /\ outcome[p].isText
           /\ response[p].choices # <<>>
           /\ outcome[p].text = ContentOf(p)

\* C6: a finish reason other than "stop" adds exactly one warning and "stop"
\* adds none; the outcome is the one the schema and the content determine,
\* whatever the finish reason.
C6_WarningOnly ==
    \A p \in Procs :
        (pc[p] = "done" /\ HasFirstChoice(p))
        => /\ Len(LinesBy(p, "warn")) = (IF FinishOf(p) # "stop" THEN 1 ELSE 0)
           /\ \A i \in 1..Len(LinesBy(p, "warn")) :
                 LinesBy(p, "warn")[i].text = <<"Unexpected finish reason: ", FinishOf(p)>>
           /\ outcome[p] = ParseContent(args[p].schema, ContentOf(p))
           /\ \A q \in Procs :
                 (/\ pc[q] = "done" /\ HasFirstChoice(q)
                  /\ args[q].schema = args[p].schema /\ ContentOf(q) = ContentOf(p))
                 => outcome[q] = outcome[p]

C6_Witness ==
    \E p \in Procs :
        /\ pc[p] = "done" /\ HasFirstChoice(p)
        /\ FinishOf(p) = "length"
        /\ outcome[p].kind = "returned"
        /\ Len(LinesBy(p, "warn")) = 1

\* The messages an invocation's own arguments allow in its request.
OwnMessages(a) ==
    {Message("user", <<a.userPrompt>>), Message("system", <<a.systemPrompt.s>>),
     Message("system", JsonInstruction(a.schema))}

C7_Isolated ==
    /\ \A i \in 1..Len(network) :
          LET m == network[i].body.messages
              a == args[network[i].by]
          IN  /\ \A j \in 1..Len(m) : m[j] \in OwnMessages(a)
              /\ Len(m) >= 1 /\ m[Len(m)] = Message("user", <<a.userPrompt>>)
              /\ \A j \in 1..(Len(m) - 1) : m[j].role = "system"
    /\ \A p \in Procs :
          outcome[p].kind = "returned"
          => /\ HasFirstChoice(p) /\ response[p].choices = raw[p].json.choices
             /\ outcome[p].isText => outcome[p].text = ContentOf(p)
             /\ ~outcome[p].isText
                => outcome[p].value = ZodParse(args[p].schema, JSONparse(ContentOf(p)).val).val
    /\ DEFAULT_REQUEST_CONFIG = InitialDefaults

C7_StepIsLocal ==
    \A p \in Procs :
        pc'[p] # pc[p]
        => /\ \A q \in Procs \ {p} :
                 /\ pc'[q] = pc[q] /\ args'[q] = args[q] /\ raw'[q] = raw[q]
                 /\ response'[q] = response[q] /\ outcome'[q] = outcome[q]
           /\ SubSeq(network', 1, Len(network)) = network
           /\ \A i \in (Len(network) + 1)..Len(network') : network'[i].by = p

\* C7: under any interleaving of invocations, a request holds only messages
\* built from its invocation's arguments, a result comes from the response
\* to that invocation's request, a step of one invocation leaves the
\* others' requests and results alone, and the default configuration
\* keeps its initial value.
C7_Isolation == []C7_Isolated /\ [][C7_StepIsLocal]_vars

C7_Witness ==
    /\ callers = Procs
    /\ \A p \in Procs : outcome[p].kind = "returned"
    /\ args["q1"].userPrompt # args["q2"].userPrompt
    /\ outcome["q1"] # outcome["q2"]
    /\ network[1].by = "q2"
    /\ Len(console) = 2 /\ console[1].by = "q1"

\* C8 as stated: an envelope that send accepts has at least one choice.
C8_ChoicesNonEmpty ==
    \A p \in Procs : response[p].ok => Len(response[p].choices) >= 1

\* C9 as stated: the messages are the JSON instruction iff a schema is
\* given, then the system prompt iff one is given (the empty string
\* included), then the user prompt.
C9_MessageSequence ==
    \A i \in 1..Len(network) :
        LET a == args[network[i].by]
        IN  network[i].body.messages =
               (IF a.schema.k # "undefined"
                THEN <<Message("system", JsonInstruction(a.schema))>> ELSE <<>>)
               \o (IF a.systemPrompt.def
                   THEN <<Message("system", <<a.systemPrompt.s>>)>> ELSE <<>>)
               \o <<Message("user", <<a.userPrompt>>)>>

Ended(p) == outcome[p].kind \in {"returned", "rejected", "exit"}

C10_OneRequest ==
    \A p \in Procs :
        /\ Len(RequestsBy(p)) = (IF pc[p] = "idle" THEN 0 ELSE 1)
        /\ Ended(p) <=> pc[p] = "done"
        /\ outcome[p].kind = "exit" => ~process.alive

C10_NoRetry ==
    \A p \in Procs :
        /\ outcome'[p].kind = "rejected" => RequestsBy(p)' = RequestsBy(p)
        /\ Ended(p) => (outcome'[p] = outcome[p] /\ RequestsBy(p)' = RequestsBy(p))
        /\ pc[p] # "idle" => RequestsBy(p)' = RequestsBy(p)

\* C10: an invocation issues exactly one request; after a failure, and
\* after any outcome, it issues no other; and once its request is issued it
\* ends in one outcome (returned, rejected, or the process has exited).
C10_OneRequestOneOutcome ==
    /\ []C10_OneRequest
    /\ [][C10_NoRetry]_vars
    /\ \A p \in Procs : (pc[p] = "fetch") ~> (Ended(p) \/ ~process.alive)

C10_Witness ==
    \E p \in Procs :
        /\ outcome[p] = Rejected("TimeoutError")
        /\ Len(RequestsBy(p)) = 1
        /\ \E q \in Procs \ {p} : outcome[q].kind = "returned"

====
